---- MODULE Spec2Model ----
(***************************************************************************)
(* The transaction pipeline of go-postgres: the fluent builder execQuery,  *)
(* the pipeline with its runner runPipeline, and the helpers the runner    *)
(* calls: queryType, PairsHook, insertTx, updateTx, deleteTx.              *)
(*                                                                         *)
(* Six specifications share the variables: Spec (one builder, its Exec     *)
(* and ExecInTx calls and the runner, step by step), SpecPipe (pipelines   *)
(* on their own), SpecClear (build, Clear, build again), SpecConc (two     *)
(* concurrent ExecInTx calls on one builder), SpecType (queryType on its   *)
(* own) and SpecBuild (two builders, FromResult, Wrap, and whole Exec and  *)
(* ExecInTx calls on a database that succeeds).                            *)
(*                                                                         *)
(* A statement text is a record [base, marks]: the base text followed by   *)
(* one comment holding a number per element of marks, in order, which is   *)
(* what uniqueQuery appends.  The empty string is EmptyText.               *)
(* An argument value is a record [kind, n, pre, rest]: nil, the integer n, *)
(* or the string made of the text pre followed by the statement text rest. *)
(***************************************************************************)
EXTENDS Integers, Sequences, FiniteSets, TLC

\* ------------------------------------------------------------------ bounds
\* Largest number of chained Insert/Update/Delete/Select calls on the builder
\* (one fewer on the second builder of SpecBuild).
MaxChain == 2
\* Largest number of Exec and ExecInTx calls on the builder (one more in
\* SpecBuild, where a second call follows the first).
MaxRuns == 1
\* Largest number of operations on the stand-alone pipelines of SpecPipe.
MaxOps == 4
\* Largest number of add operations that build the pipeline of SpecClear.
MaxAdds == 3

\* ------------------------------------------------------------ statement text
Text(b, m) == [base |-> b, marks |-> m]
EmptyText == Text("", <<>>)

\* The characters of the base texts the model uses.
BaseText(b) ==
    CASE b = "Insert x" -> <<"I", "n", "s", "e", "r", "t", " ", "x">>
      [] b = " delete x" -> <<" ", "d", "e", "l", "e", "t", "e", " ", "x">>
      [] b = "UPDATE x" -> <<"U", "P", "D", "A", "T", "E", " ", "x">>
      [] b = "up" -> <<"u", "p">>
      [] b = "select x" -> <<"s", "e", "l", "e", "c", "t", " ", "x">>
      [] OTHER -> << >>

DigitChar(n) == <<"0", "1", "2", "3", "4", "5", "6", "7", "8", "9">>[n + 1]

RECURSIVE MarkChars(_)
MarkChars(m) ==
    IF m = << >> THEN << >>
    ELSE <<"/", "*", DigitChar(Head(m)), "*", "/">> \o MarkChars(Tail(m))

Chars(q) == BaseText(q.base) \o MarkChars(q.marks)

ToLowerChar(c) ==
    CASE c = "I" -> "i" [] c = "U" -> "u" [] c = "P" -> "p" [] c = "D" -> "d"
      [] c = "A" -> "a" [] c = "T" -> "t" [] c = "E" -> "e" [] c = "N" -> "n"
      [] c = "S" -> "s" [] c = "R" -> "r" [] c = "L" -> "l" [] OTHER -> c

ToLower(s) == [i \in 1..Len(s) |-> ToLowerChar(s[i])]

\* The white space of the texts the model uses.
IsSpace(c) == c \in {" ", "\t", "\n"}

RECURSIVE TrimLeft(_)
TrimLeft(s) == IF s # << >> /\ IsSpace(Head(s)) THEN TrimLeft(Tail(s)) ELSE s

RECURSIVE TrimRight(_)
TrimRight(s) ==
    IF s # << >> /\ IsSpace(s[Len(s)]) THEN TrimRight(SubSeq(s, 1, Len(s) - 1)) ELSE s

TrimSpace(s) == TrimRight(TrimLeft(s))

qInsert == <<"i", "n", "s", "e", "r", "t">>
qUpdate == <<"u", "p", "d", "a", "t", "e">>
qDelete == <<"d", "e", "l", "e", "t", "e">>
qResult == "q-result---"

HasPrefix(s, p) == Len(s) >= Len(p) /\ SubSeq(s, 1, Len(p)) = p

\* A queryType that compares the prefix as it is written.
queryTypeOfCaseSensitive(chars) ==
    LET t == TrimSpace(chars) IN
    IF Len(t) < 6 THEN "select"
    ELSE LET queryPrefix == SubSeq(t, 1, 6) IN
         CASE HasPrefix(queryPrefix, qInsert) -> "insert"
           [] HasPrefix(queryPrefix, qUpdate) -> "update"
           [] HasPrefix(queryPrefix, qDelete) -> "delete"
           [] OTHER -> "select"

\* queryType on the characters of a text.
queryTypeOf(chars) ==
    LET t == TrimSpace(chars) IN
    IF Len(t) < 6 THEN "select"
    ELSE LET queryPrefix == ToLower(SubSeq(t, 1, 6)) IN
         CASE HasPrefix(queryPrefix, qInsert) -> "insert"
           [] HasPrefix(queryPrefix, qUpdate) -> "update"
           [] HasPrefix(queryPrefix, qDelete) -> "delete"
           [] OTHER -> "select"

queryType(query) == queryTypeOf(Chars(query))

\* ------------------------------------------------------------------ values
Nil == [kind |-> "nil", n |-> 0, pre |-> "", rest |-> EmptyText]
IntV(i) == [kind |-> "int", n |-> i, pre |-> "", rest |-> EmptyText]
StrV(p, r) == [kind |-> "str", n |-> 0, pre |-> p, rest |-> r]
Name(s) == StrV("", Text(s, << >>))

\* postgres.FromResult: the reserved prefix followed by the text.
FromResult(from) == StrV(qResult, from)

\* fmt.Sprintf("%v", key) for the keys the model uses: a string prints as
\* itself, an integer as its decimal digits.
Sprint(v) == IF v.kind = "int" THEN DigitChar(v.n) ELSE v.rest.base

EmptyMap == [k \in {} |-> Nil]
MapPut(m, k, v) == [x \in DOMAIN m \cup {k} |-> IF x = k THEN v ELSE m[x]]
MapGet(m, k) == IF k \in DOMAIN m THEN m[k] ELSE Nil

\* The hook test of PairsHook: a string longer than the 11 characters of the
\* hook whose first 11 characters are the hook.
IsHooked(value, hook) ==
    value.kind = "str" /\ value.pre = hook /\ value.rest # EmptyText

\* A hook loop that leaves a placeholder in place when the map has no result
\* under its key.
RECURSIVE HookLoopKeepsUnknown(_, _, _, _)
HookLoopKeepsUnknown(keyValuePairs, identifiers, hook, arguments) ==
    IF keyValuePairs = << >> THEN arguments
    ELSE LET key == Sprint(keyValuePairs[1])
             raw == keyValuePairs[2]
             value == IF IsHooked(raw, hook) /\ raw.rest \in DOMAIN identifiers
                      THEN identifiers[raw.rest]
                      ELSE raw
         IN HookLoopKeepsUnknown(SubSeq(keyValuePairs, 3, Len(keyValuePairs)),
                                 identifiers, hook, MapPut(arguments, key, value))

RECURSIVE HookLoop(_, _, _, _)
HookLoop(keyValuePairs, identifiers, hook, arguments) ==
    IF keyValuePairs = << >> THEN arguments
    ELSE LET key == Sprint(keyValuePairs[1])
             raw == keyValuePairs[2]
             value == IF IsHooked(raw, hook) THEN MapGet(identifiers, raw.rest)
                      ELSE raw
         IN HookLoop(SubSeq(keyValuePairs, 3, Len(keyValuePairs)), identifiers,
                     hook, MapPut(arguments, key, value))

\* What Pairs and PairsHook return: the error is non-nil (err), the map is
\* nil (isNil), and the map itself, EmptyMap standing for the nil map.
NilMapAndError == [err |-> TRUE, isNil |-> TRUE, arguments |-> EmptyMap]
MapAndNoError(m) == [err |-> FALSE, isNil |-> FALSE, arguments |-> m]

\* A PairsHook that drops the last element of an odd list.
PairsHookOddOk(keyValuePairs, identifiers, hook) ==
    MapAndNoError(HookLoop(SubSeq(keyValuePairs, 1, 2 * (Len(keyValuePairs) \div 2)),
                           identifiers, hook, EmptyMap))

PairsHook(keyValuePairs, identifiers, hook) ==
    IF Len(keyValuePairs) % 2 = 1 THEN NilMapAndError
    ELSE MapAndNoError(HookLoop(keyValuePairs, identifiers, hook, EmptyMap))

RECURSIVE PairsLoop(_, _)
PairsLoop(keyValuePairs, arguments) ==
    IF keyValuePairs = << >> THEN arguments
    ELSE PairsLoop(SubSeq(keyValuePairs, 3, Len(keyValuePairs)),
                   MapPut(arguments, Sprint(keyValuePairs[1]), keyValuePairs[2]))

Pairs(keyValuePairs) ==
    IF Len(keyValuePairs) % 2 = 1 THEN NilMapAndError
    ELSE MapAndNoError(PairsLoop(keyValuePairs, EmptyMap))

\* ---------------------------------------------------------------- pipeline
NewPipeline == [queryParameters |-> EmptyMap, queryKeys |-> << >>]

uniqueQuery(p, query) ==
    IF query \in DOMAIN p.queryParameters
    THEN Text(query.base, Append(query.marks, Len(p.queryKeys)))
    ELSE query

addPipeline(p, query, keyValuePairs) ==
    IF query = EmptyText THEN p
    ELSE LET u == uniqueQuery(p, query) IN
         [queryParameters |-> MapPut(p.queryParameters, u, keyValuePairs),
          queryKeys |-> Append(p.queryKeys, u)]

\* An addFirstPipeline that appends, as addPipeline does.
addFirstPipelineAppends(p, query, keyValuePairs) == addPipeline(p, query, keyValuePairs)

addFirstPipeline(p, query, keyValuePairs) ==
    IF query = EmptyText THEN p
    ELSE LET u == uniqueQuery(p, query) IN
         [queryParameters |-> MapPut(p.queryParameters, u, keyValuePairs),
          queryKeys |-> <<u>> \o p.queryKeys]

RECURSIVE AppendLoop(_, _, _)
AppendLoop(p, sourcePipeline, keys) ==
    IF keys = << >> THEN p
    ELSE LET originalQuery == Head(keys)
             u == uniqueQuery(p, originalQuery)
             q == IF originalQuery \in DOMAIN sourcePipeline.queryParameters
                  THEN [queryParameters |->
                            MapPut(p.queryParameters, u,
                                   sourcePipeline.queryParameters[originalQuery]),
                        queryKeys |-> Append(p.queryKeys, u)]
                  ELSE p
         IN AppendLoop(q, sourcePipeline, Tail(keys))

appendPipeline(p, sourcePipeline) ==
    IF Len(sourcePipeline.queryKeys) = 0 THEN p
    ELSE AppendLoop(p, sourcePipeline, sourcePipeline.queryKeys)

isTransAlways(p) == TRUE

\* An isTrans that never sees a pipeline.
isTransNever(p) == FALSE

isTrans(p) == Len(p.queryKeys) > 0

\* A Clear that empties the keys and keeps the mapping.
ClearKeysOnly(p) == [queryParameters |-> p.queryParameters, queryKeys |-> << >>]

Clear(p) == [queryParameters |-> EmptyMap, queryKeys |-> << >>]

\* ------------------------------------------------------------------ inputs
InsertX == Text("Insert x", << >>)
DeleteX == Text(" delete x", << >>)
\* A caller's statement that already ends in a comment of the form /*2*/.
InsertX2 == Text("Insert x", <<2>>)

\* The statements the callers add, each with its argument list: plain
\* arguments, placeholders for other statements, an odd list, an empty text.
Call(q, kv) == [query |-> q, keyValuePairs |-> kv]
Calls ==
    { Call(InsertX, <<Name("a"), IntV(7)>>),
      Call(InsertX2, <<Name("a"), IntV(7)>>),
      Call(InsertX, <<Name("a"), FromResult(InsertX2)>>),
      Call(DeleteX, <<Name("a"), FromResult(InsertX)>>),
      Call(DeleteX, <<Name("a")>>),
      Call(Text("up", << >>), << >>),
      Call(EmptyText, << >>) }
\* The statements handed to db.Insert / Update / Delete and run with Exec at
\* once: those above, an update and a select.
SelectX == Text("select x", << >>)
UpdateX == Text("UPDATE x", << >>)
ExecCalls ==
    Calls \cup { Call(SelectX, << >>), Call(UpdateX, <<Name("a"), IntV(7)>>) }
\* The affected-row counts the database reports.
RowCounts == {0, 1}
PanicValues == {"p1", "p2"}
NoPanic == "none"

\* ------------------------------------------------------------------- state
VARIABLES
    query,          \* execQuery.query
    keyValuePairs,  \* execQuery.keyValuePairs
    pipeline,       \* execQuery.pipeline
    chained,        \* number of chained builder calls so far
    runs,           \* number of Exec and ExecInTx calls so far
    pc,             \* position of the ExecInTx call in progress, "idle" if none
    ctxDone,        \* ctx.Done() is closed
    index,          \* runPipeline: position of the current entry (from 1)
    ids,            \* runPipeline: result.ids
    arguments,      \* runPipeline: the argument map of the current entry
    err,            \* ExecInTx: the named result err ("" is nil)
    hasResult,      \* ExecInTx: the named result is non-nil
    panicValue,     \* the panic unwinding through ExecInTx, NoPanic if none
    stmtOpen,       \* prepared statements not yet closed
    nextId,         \* next identifier the database hands out
    ret,            \* what the last Exec or ExecInTx call gave its caller
    log,            \* what happened on the transaction of the current run
    bound,          \* per started entry: its argument list, the map bound to it,
                    \* and result.ids as PairsHook was given it
    produced,       \* per executed entry: what its executor returned
    cancelAt,       \* where the run stood when ctx was cancelled
    rangeKeys,      \* runPipeline: the slice its range loop walks
    resolved,       \* the last call of Pairs or PairsHook: input and output
    outcome,        \* what the database did with the last statement executed
    p,              \* SpecPipe: a stand-alone pipeline
    s,              \* SpecPipe: a second pipeline, the source of appendPipeline
    ops,            \* SpecPipe: number of operations so far
    hist,           \* SpecClear: the add operations that built p
    saved,          \* SpecClear: p as it was when Clear was called
    replayed,       \* SpecClear: operations of hist repeated since the Clear,
                    \* -1 before the Clear
    call,           \* SpecConc: per concurrent ExecInTx call, where it stands
    built,          \* SpecConc: the pipeline as it was when the first call began
    crashed,        \* SpecConc: the runtime stopped the program
    text,           \* SpecType: a statement text, as its characters
    qtype,          \* SpecType: what queryType returned for text
    dispatched,     \* the executors called by the last Exec or ExecInTx call,
                    \* each with the statement and the arguments it was given
    builder,        \* SpecBuild: a builder, the receiver of the calls
    other,          \* SpecBuild: a second builder, the argument of Wrap
    chain,          \* SpecBuild: the chained calls made on builder, in order
    otherChain,     \* SpecBuild: the chained calls made on other, in order
    wrap,           \* SpecBuild: the Wrap call, what other was when it was made
    results         \* SpecBuild: what each Exec and ExecInTx call on builder did

builderVars == <<query, keyValuePairs, pipeline, chained, runs>>
runVars == <<pc, ctxDone, index, ids, arguments, err, hasResult, panicValue,
             stmtOpen, nextId, ret, log, bound, produced, cancelAt, rangeKeys,
             resolved, outcome>>
pipeVars == <<p, s, ops>>
clearVars == <<hist, saved, replayed>>
concVars == <<call, built, crashed>>
typeVars == <<text, qtype>>
execVars == <<dispatched>>
buildVars == <<builder, other, chain, otherChain, wrap, results>>
vars == <<builderVars, runVars, pipeVars, concVars, typeVars, clearVars, execVars, buildVars>>

\* A log entry: what happened, at which position, to which key, with which value.
Ev(op, pos, q, val) == [op |-> op, pos |-> pos, query |-> q, val |-> val]
TxEv(op) == Ev(op, 0, EmptyText, NoPanic)
NoRet == [state |-> "none", hasResult |-> FALSE, ids |-> EmptyMap, err |-> "",
          panic |-> NoPanic, value |-> Nil]
NoResolved == [fn |-> "none", kv |-> << >>, out |-> MapAndNoError(EmptyMap)]
Resolved(fn, kv, out) == [fn |-> fn, kv |-> kv, out |-> out]
NoCancel == [pc |-> "none", index |-> 0]

\* newExecQuery: a builder holds its statement, the arguments and an empty pipeline.
NewBuilder(q, kv) ==
    [query |-> q, keyValuePairs |-> kv, pipeline |-> NewPipeline, debug |-> FALSE]

\* No Wrap call has been made.
NoWrap == [done |-> FALSE, at |-> 0, query |-> EmptyText, keyValuePairs |-> << >>,
           len |-> 0]

\* A call of an executor: which one, with which statement and arguments.
Dispatched(executor, q, args) == [executor |-> executor, query |-> q, arguments |-> args]

\* The ExecInTx calls of SpecConc, and a call that has not begun.
CallIds == {1, 2}
NewCall == [pc |-> "new", u |-> EmptyText, keys |-> << >>, tx |-> 0,
            executed |-> << >>, ids |-> EmptyMap, hasResult |-> FALSE, err |-> ""]

\* newExecQuery: the builder holds the originating statement and an empty pipeline.
Init ==
    /\ query = InsertX
    /\ keyValuePairs \in {<<Name("a")>>, <<Name("a"), IntV(7)>>}
    /\ pipeline = NewPipeline
    /\ chained = 0
    /\ runs = 0
    /\ pc = "idle"
    /\ ctxDone = FALSE
    /\ index = 0
    /\ ids = EmptyMap
    /\ arguments = EmptyMap
    /\ err = ""
    /\ hasResult = FALSE
    /\ panicValue = NoPanic
    /\ stmtOpen = 0
    /\ nextId = 101
    /\ ret = NoRet
    /\ log = << >>
    /\ bound = << >>
    /\ produced = << >>
    /\ cancelAt = NoCancel
    /\ rangeKeys = << >>
    /\ resolved = NoResolved
    /\ outcome = "none"
    /\ p = NewPipeline
    /\ s = NewPipeline
    /\ ops = 0
    /\ hist = << >>
    /\ saved = NewPipeline
    /\ replayed = -1
    /\ call = [c \in CallIds |-> NewCall]
    /\ built = NewPipeline
    /\ crashed = FALSE
    /\ text = << >>
    /\ qtype = "none"
    /\ dispatched = << >>
    /\ builder = NewBuilder(InsertX, <<Name("a"), IntV(1)>>)
    /\ other = NewBuilder(DeleteX, <<Name("a"), IntV(2)>>)
    /\ chain = << >>
    /\ otherChain = << >>
    /\ wrap = NoWrap
    /\ results = << >>

\* execQuery.Insert / Update / Delete / Select: all four add to the pipeline.
Insert ==
    /\ pc = "idle"
    /\ chained < MaxChain
    /\ runs < MaxRuns
    /\ \E c \in Calls :
           pipeline' = addPipeline(pipeline, c.query, c.keyValuePairs)
    /\ chained' = chained + 1
    /\ UNCHANGED <<query, keyValuePairs, runs, runVars, pipeVars, concVars, typeVars, clearVars, execVars, buildVars>>

\* An ExecInTx that registers its deferred function before it looks at the
\* error of Beginx: the failure is followed by a Rollback.
onBeginErrorRollsBack == <<[op |-> "Rollback", pos |-> 0, query |-> EmptyText, val |-> NoPanic]>>

\* execQuery.ExecInTx: what is done on the transaction when Beginx returned
\* an error: the call returns before the deferred function is registered.
onBeginError == << >>

\* execQuery.ExecInTx up to the call of runPipeline.
ExecInTx ==
    /\ pc = "idle"
    /\ runs < MaxRuns
    /\ runs' = runs + 1
    /\ bound' = << >> /\ produced' = << >>
    /\ ids' = EmptyMap /\ arguments' = EmptyMap
    /\ panicValue' = NoPanic
    /\ hasResult' = FALSE
    /\ resolved' = NoResolved /\ outcome' = "none"
    /\ dispatched' = << >>
    /\ UNCHANGED <<query, keyValuePairs, chained, stmtOpen, nextId, pipeVars, concVars, typeVars, clearVars, buildVars>>
    /\ IF ~isTrans(pipeline)
       THEN /\ ret' = [NoRet EXCEPT !.state = "returned", !.err = "notrans"]
            /\ err' = "notrans"
            /\ log' = << >> /\ rangeKeys' = << >>
            /\ ctxDone' = FALSE /\ cancelAt' = NoCancel
            /\ index' = 0
            /\ UNCHANGED <<pipeline, pc>>
       ELSE /\ pipeline' = addFirstPipeline(pipeline, query, keyValuePairs)
            /\ \E beginOk \in BOOLEAN :
                  IF beginOk
                  THEN /\ pc' = "loop"
                       /\ index' = 1
                       /\ err' = ""
                       /\ ret' = NoRet
                       /\ log' = <<TxEv("Begin")>>
                       /\ rangeKeys' = pipeline'.queryKeys
                       /\ \E cancelled \in BOOLEAN :
                             /\ ctxDone' = cancelled
                             /\ cancelAt' = IF cancelled
                                            THEN [pc |-> "loop", index |-> 1]
                                            ELSE NoCancel
                  ELSE /\ ret' = [NoRet EXCEPT !.state = "returned", !.err = "begin"]
                       /\ err' = "begin"
                       /\ log' = onBeginError /\ rangeKeys' = << >>
                       /\ ctxDone' = FALSE /\ cancelAt' = NoCancel
                       /\ index' = 0
                       /\ UNCHANGED pc

\* A runner that never looks at ctx.Done().
ctxErrNever(done) == ""

\* runPipeline: the select on ctx.Done() at the head of an iteration; the
\* error to return, "" to go on.
ctxErr(done) == IF done THEN "ctx" ELSE ""

\* A loop that walks the keys from the last to the first.
entryAtReversed(keys, i) == keys[Len(keys) - i + 1]

\* runPipeline: the entry the range loop visits at a position.
entryAt(keys, i) == keys[i]

\* runPipeline returns nil and an error before the executor of the entry is called.
Abort(e) ==
    /\ hasResult' = FALSE /\ err' = e /\ pc' = "defer"
    /\ log' = Append(log, Ev(e, index, entryAt(rangeKeys, index), NoPanic))
    /\ UNCHANGED <<arguments, bound>>

\* runPipeline: the head of one loop iteration (cancellation check, parameter
\* lookup, PairsHook), or the return after the last entry.
Iterate ==
    /\ pc = "loop"
    /\ UNCHANGED <<builderVars, ctxDone, ids, panicValue, stmtOpen, nextId, ret,
                   produced, cancelAt, rangeKeys, index, outcome, pipeVars, concVars, typeVars, clearVars, execVars, buildVars>>
    /\ IF index > Len(rangeKeys)
       THEN /\ hasResult' = TRUE /\ err' = "" /\ pc' = "defer"
            /\ UNCHANGED <<arguments, bound, log, resolved>>
       ELSE LET q == entryAt(rangeKeys, index) IN
            IF ctxErr(ctxDone) # ""
            THEN Abort(ctxErr(ctxDone)) /\ UNCHANGED resolved
            ELSE IF q \notin DOMAIN pipeline.queryParameters
            THEN Abort("params") /\ UNCHANGED resolved
            ELSE LET r == PairsHook(pipeline.queryParameters[q], ids, qResult) IN
                 /\ resolved' = Resolved("PairsHook", pipeline.queryParameters[q], r)
                 /\ IF r.err
                    THEN Abort("pairs")
                    ELSE
                      /\ arguments' = r.arguments
                      /\ bound' = Append(bound, [raw |-> pipeline.queryParameters[q],
                                                  args |-> r.arguments,
                                                  ids |-> ids])
                      /\ pc' = "prepare"
                      /\ UNCHANGED <<hasResult, err, log>>

\* A runner that notes the error and goes on with the next entry.
FailContinue(e) ==
    /\ pc' = "loop" /\ index' = index + 1
    /\ log' = Append(log, Ev("fail", index, rangeKeys[index], NoPanic))
    /\ UNCHANGED <<err, hasResult, ids, produced, panicValue>>

\* A runner that rolls the transaction back itself before it returns the error.
FailRollsBack(e) ==
    /\ err' = e /\ hasResult' = FALSE /\ pc' = "defer"
    /\ log' = Append(Append(log, Ev("fail", index, entryAt(rangeKeys, index), NoPanic)),
                     TxEv("Rollback"))
    /\ UNCHANGED <<ids, produced, index, panicValue>>

\* The executor returned an error: runPipeline returns nil and the error.
Fail(e) ==
    /\ err' = e /\ hasResult' = FALSE /\ pc' = "defer"
    /\ log' = Append(log, Ev("fail", index, entryAt(rangeKeys, index), NoPanic))
    /\ UNCHANGED <<ids, produced, index, panicValue>>

\* runPipeline: the switch on the query type that picks the executor.
dispatchTx(queryType_) ==
    CASE queryType_ = "insert" -> "insertTx"
      [] queryType_ = "delete" -> "deleteTx"
      [] OTHER -> "updateTx"

\* runPipeline calls the executor of the entry; insertTx / updateTx /
\* deleteTx begin with PrepareNamedContext.
Prepare ==
    /\ pc = "prepare"
    /\ UNCHANGED <<builderVars, ctxDone, arguments, ret, bound, cancelAt, nextId,
                   rangeKeys, resolved, outcome, pipeVars, concVars, typeVars, clearVars, buildVars>>
    /\ dispatched' = Append(dispatched,
                            Dispatched(dispatchTx(queryType(entryAt(rangeKeys, index))),
                                       entryAt(rangeKeys, index), arguments))
    /\ \/ /\ stmtOpen' = stmtOpen + 1 /\ pc' = "exec"
          /\ log' = Append(log, Ev("prepare", index, entryAt(rangeKeys, index), NoPanic))
          /\ UNCHANGED <<err, hasResult, index, ids, produced, panicValue>>
       \/ Fail("prepare") /\ UNCHANGED stmtOpen

\* A runner that records the result under the text without its comments.
RecordUnderBase(queryID) ==
    /\ ids' = MapPut(ids, Text(entryAt(rangeKeys, index).base, << >>), queryID)
    /\ produced' = Append(produced, queryID)
    /\ log' = Append(log, Ev("exec", index, entryAt(rangeKeys, index), NoPanic))
    /\ index' = index + 1
    /\ pc' = "loop"
    /\ UNCHANGED <<err, hasResult, panicValue>>

\* The executor returned queryID without error: runPipeline records it.
Record(queryID) ==
    /\ ids' = MapPut(ids, entryAt(rangeKeys, index), queryID)
    /\ produced' = Append(produced, queryID)
    /\ log' = Append(log, Ev("exec", index, entryAt(rangeKeys, index), NoPanic))
    /\ index' = index + 1
    /\ pc' = "loop"
    /\ UNCHANGED <<err, hasResult, panicValue>>

\* What GetContext does with an insert: "id" a row holding an identifier,
\* "null" a row holding NULL, "norow" no row at all, "driver" a failure.
InsertOutcomes == {"id", "null", "norow", "driver"}

\* insertTx / insert: the error returned for an outcome without identifier:
\* GetContext gives sql.ErrNoRows ("norows") when there is no row and the
\* driver's error ("exec") when it fails; a nil identifier gives the
\* error "insert operation failed: no ID was returned" ("noid").
insertErr(got) ==
    CASE got = "norow" -> "norows"
      [] got = "driver" -> "exec"
      [] got = "null" -> "noid"

\* insertTx after the prepare: GetContext, then the nil test.
insertTx ==
    \E got \in InsertOutcomes :
        /\ outcome' = got
        /\ IF got = "id"
           THEN Record(IntV(nextId)) /\ nextId' = nextId + 1
           ELSE Fail(insertErr(got)) /\ UNCHANGED nextId

\* An updateTx that returns an error when no row was affected.
updateTxZeroFails ==
    /\ UNCHANGED nextId
    /\ \/ \E rowsAffected \in RowCounts :
             /\ outcome' = "rows"
             /\ IF rowsAffected = 0 THEN Fail("norows") ELSE Record(IntV(rowsAffected))
       \/ outcome' = "unaffected" /\ Fail("norows")
       \/ outcome' = "driver" /\ Fail("exec")

\* updateTx after the prepare: ExecContext, then RowsAffected.
updateTx ==
    /\ UNCHANGED nextId
    /\ \/ \E rowsAffected \in RowCounts :
             outcome' = "rows" /\ Record(IntV(rowsAffected))
       \/ outcome' = "unaffected" /\ Record(IntV(0))  \* RowsAffected gave sql.ErrNoRows
       \/ outcome' = "driver" /\ Fail("exec")

\* deleteTx after the prepare: ExecContext, then RowsAffected.
deleteTx ==
    /\ UNCHANGED nextId
    /\ \/ \E rowsAffected \in RowCounts :
             outcome' = "rows" /\ Record(IntV(rowsAffected))
       \/ outcome' = "unaffected" /\ Record(IntV(0))  \* RowsAffected gave sql.ErrNoRows
       \/ outcome' = "driver" /\ Fail("exec")

\* A Close that is called after the statement ran, not deferred: an error
\* return or a panic skips it.
closeOnSuccessOnly(open, exitPc) == IF exitPc = "loop" THEN open - 1 ELSE open

\* defer preparedStatement.Close(): the statements left open when the
\* executor is left, whichever way (exitPc is where control goes next).
closeDeferred(open, exitPc) == open - 1

\* The statement of the current entry runs (or the driver panics); the
\* deferred Close of the prepared statement runs on every way out.
Execute ==
    /\ pc = "exec"
    /\ UNCHANGED <<builderVars, ctxDone, arguments, ret, bound, cancelAt, rangeKeys,
                   resolved, pipeVars, concVars, typeVars, clearVars, execVars, buildVars>>
    /\ LET executor == dispatched[Len(dispatched)].executor IN
       \/ executor = "insertTx" /\ insertTx
       \/ executor = "deleteTx" /\ deleteTx
       \/ executor = "updateTx" /\ updateTx
       \/ \E v \in PanicValues :
             /\ panicValue' = v /\ pc' = "defer"
             /\ outcome' = "panic"
             /\ log' = Append(log, Ev("panic", index, entryAt(rangeKeys, index), v))
             /\ UNCHANGED <<ids, produced, index, err, hasResult, nextId>>
    /\ stmtOpen' = closeDeferred(stmtOpen, pc')

\* Exec returns a value and an error ("" is nil).
ExecReturn(value, e) == [NoRet EXCEPT !.state = "execReturned", !.value = value, !.err = e]

\* insert (no transaction): prepare, GetContext, the nil test.
insert ==
    \/ /\ ret' = ExecReturn(IntV(0), "prepare")
       /\ UNCHANGED <<nextId, outcome>>
    \/ \E got \in InsertOutcomes :
          /\ outcome' = got
          /\ IF got = "id"
             THEN ret' = ExecReturn(IntV(nextId), "") /\ nextId' = nextId + 1
             ELSE ret' = ExecReturn(IntV(0), insertErr(got)) /\ UNCHANGED nextId

\* delete (no transaction): prepare, ExecContext, RowsAffected.
delete ==
    /\ UNCHANGED nextId
    /\ \/ ret' = ExecReturn(IntV(0), "prepare") /\ UNCHANGED outcome
       \/ \E rowsAffected \in RowCounts :
             outcome' = "rows" /\ ret' = ExecReturn(IntV(rowsAffected), "")
       \/ outcome' = "unaffected" /\ ret' = ExecReturn(IntV(0), "")
       \/ outcome' = "driver" /\ ret' = ExecReturn(IntV(0), "exec")

\* update (no transaction): prepare, ExecContext, RowsAffected.
update ==
    /\ UNCHANGED nextId
    /\ \/ ret' = ExecReturn(IntV(0), "prepare") /\ UNCHANGED outcome
       \/ \E rowsAffected \in RowCounts :
             outcome' = "rows" /\ ret' = ExecReturn(IntV(rowsAffected), "")
       \/ outcome' = "unaffected" /\ ret' = ExecReturn(IntV(0), "")
       \/ outcome' = "driver" /\ ret' = ExecReturn(IntV(0), "exec")

\* execQuery.Exec: the tests on the query type that pick the executor.
dispatch(queryType_) ==
    IF queryType_ = "insert" THEN "insert"
    ELSE IF queryType_ = "delete" THEN "delete"
    ELSE "update"

\* execQuery.Exec on a builder holding the statement q with the arguments kv
\* and the pipeline pl: the statement alone, outside any transaction.
ExecOn(q, kv, pl) ==
    /\ runs' = runs + 1
    /\ bound' = << >> /\ produced' = << >>
    /\ ids' = EmptyMap /\ arguments' = EmptyMap
    /\ panicValue' = NoPanic /\ hasResult' = FALSE /\ err' = ""
    /\ log' = << >> /\ rangeKeys' = << >> /\ index' = 0
    /\ ctxDone' = FALSE /\ cancelAt' = NoCancel
    /\ UNCHANGED <<query, keyValuePairs, pipeline, chained, pc, stmtOpen, pipeVars, concVars, typeVars, clearVars, buildVars>>
    /\ IF isTrans(pl)
       THEN /\ ret' = ExecReturn(IntV(0), "intrans")
            /\ resolved' = NoResolved /\ outcome' = "none"
            /\ dispatched' = << >>
            /\ UNCHANGED nextId
       ELSE LET r == Pairs(kv) IN
            /\ resolved' = Resolved("Pairs", kv, r)
            /\ IF r.err
               THEN /\ ret' = ExecReturn(IntV(0), "pairs")
                    /\ outcome' = "none"
                    /\ dispatched' = << >>
                    /\ UNCHANGED nextId
               ELSE LET executor == dispatch(queryType(q)) IN
                    /\ dispatched' = <<Dispatched(executor, q, r.arguments)>>
                    /\ \/ executor = "insert" /\ insert
                       \/ executor = "delete" /\ delete
                       \/ executor = "update" /\ update

\* Exec on the builder.
Exec ==
    /\ pc = "idle"
    /\ runs < MaxRuns
    /\ ExecOn(query, keyValuePairs, pipeline)

\* db.Insert / Update / Delete followed at once by Exec: the first thing the
\* program does, on a builder of its own, with an empty pipeline.
ExecNew ==
    /\ pc = "idle"
    /\ runs = 0 /\ chained = 0
    /\ runs < MaxRuns
    /\ \E c \in ExecCalls : ExecOn(c.query, c.keyValuePairs, NewPipeline)

\* A deferred function that does not look at err.
deferredCallIgnoresErr(panicValue_, err_) ==
    IF panicValue_ # NoPanic THEN "Rollback" ELSE "Commit"

\* A deferred function that does not recover.
deferredCallNoRecover(panicValue_, err_) ==
    IF err_ # "" THEN "Rollback" ELSE "Commit"

\* The deferred function of ExecInTx: which call it makes on the transaction.
deferredCall(panicValue_, err_) ==
    IF panicValue_ # NoPanic THEN "Rollback"
    ELSE IF err_ # "" THEN "Rollback"
    ELSE "Commit"

\* The deferred function of ExecInTx, then the return (or the panic) to the caller.
Deferred ==
    /\ pc = "defer"
    /\ pc' = "idle"
    /\ UNCHANGED <<builderVars, ctxDone, index, ids, arguments, hasResult,
                   panicValue, stmtOpen, nextId, bound, produced, cancelAt,
                   rangeKeys, resolved, outcome, pipeVars, concVars, typeVars, clearVars, execVars, buildVars>>
    /\ log' = Append(log, TxEv(deferredCall(panicValue, err)))
    /\ IF panicValue # NoPanic
       THEN /\ ret' = [NoRet EXCEPT !.state = "panicked", !.panic = panicValue]
            /\ UNCHANGED err
       ELSE IF deferredCall(panicValue, err) = "Rollback"
       THEN /\ ret' = [NoRet EXCEPT !.state = "returned", !.err = err,
                                    !.hasResult = hasResult,
                                    !.ids = IF hasResult THEN ids ELSE EmptyMap]
            /\ UNCHANGED err
       ELSE \E commitErr \in {"", "commit"} :
               /\ err' = commitErr
               /\ ret' = [NoRet EXCEPT !.state = "returned", !.err = commitErr,
                                       !.hasResult = hasResult,
                                       !.ids = IF hasResult THEN ids ELSE EmptyMap]

\* The caller's context is cancelled while the call is in progress.
Cancel ==
    /\ pc # "idle"
    /\ ~ctxDone
    /\ ctxDone' = TRUE
    /\ cancelAt' = [pc |-> pc, index |-> index]
    /\ UNCHANGED <<builderVars, pc, index, ids, arguments, err, hasResult,
                   panicValue, stmtOpen, nextId, ret, log, bound, produced,
                   rangeKeys, resolved, outcome, pipeVars, concVars, typeVars, clearVars, execVars, buildVars>>

Next == Insert \/ Exec \/ ExecNew \/ ExecInTx \/ Iterate \/ Prepare \/ Execute \/ Deferred \/ Cancel

Spec == Init /\ [][Next]_vars

\* ------------------------------------------- the pipeline on its own (SpecPipe)
PipeAdd ==
    /\ ops < MaxOps
    /\ \E c \in Calls : p' = addPipeline(p, c.query, c.keyValuePairs)
    /\ ops' = ops + 1
    /\ UNCHANGED <<s, builderVars, runVars, concVars, typeVars, clearVars, execVars, buildVars>>

PipeAddFirst ==
    /\ ops < MaxOps
    /\ \E c \in Calls : p' = addFirstPipeline(p, c.query, c.keyValuePairs)
    /\ ops' = ops + 1
    /\ UNCHANGED <<s, builderVars, runVars, concVars, typeVars, clearVars, execVars, buildVars>>

PipeAddSource ==
    /\ ops < MaxOps
    /\ \E c \in Calls : s' = addPipeline(s, c.query, c.keyValuePairs)
    /\ ops' = ops + 1
    /\ UNCHANGED <<p, builderVars, runVars, concVars, typeVars, clearVars, execVars, buildVars>>

PipeAppend ==
    /\ ops < MaxOps
    /\ p' = appendPipeline(p, s)
    /\ ops' = ops + 1
    /\ UNCHANGED <<s, builderVars, runVars, concVars, typeVars, clearVars, execVars, buildVars>>

PipeClear ==
    /\ ops < MaxOps
    /\ p' = Clear(p)
    /\ ops' = ops + 1
    /\ UNCHANGED <<s, builderVars, runVars, concVars, typeVars, clearVars, execVars, buildVars>>

NextPipe == PipeAdd \/ PipeAddFirst \/ PipeAddSource \/ PipeAppend \/ PipeClear

SpecPipe == Init /\ [][NextPipe]_vars

\* ------------------------------------------------ SpecConc and SpecBuild
\* runPipeline on a database that succeeds every time: the statements it
\* executes with the arguments bound to them, the result, the error.  The
\* entry at position i returns 100 + i.
RECURSIVE RunFrom(_, _, _, _)
RunFrom(pl, i, executed, result) ==
    IF i > Len(pl.queryKeys)
    THEN [executed |-> executed, ids |-> result, hasResult |-> TRUE, err |-> ""]
    ELSE LET q == pl.queryKeys[i] IN
         IF q \notin DOMAIN pl.queryParameters
         THEN [executed |-> executed, ids |-> EmptyMap, hasResult |-> FALSE,
               err |-> "params"]
         ELSE LET r == PairsHook(pl.queryParameters[q], result, qResult) IN
              IF r.err
              THEN [executed |-> executed, ids |-> EmptyMap, hasResult |-> FALSE,
                    err |-> "pairs"]
              ELSE RunFrom(pl, i + 1,
                           Append(executed, [query |-> q, arguments |-> r.arguments]),
                           MapPut(result, q, IntV(100 + i)))

runPipeline(pl) == RunFrom(pl, 1, << >>, EmptyMap)

\* The builder calls made before any ExecInTx call begins.
ConcInsert ==
    /\ \A c \in CallIds : call[c].pc = "new"
    /\ Insert

\* ExecInTx: the isTrans test, then addFirstPipeline up to its uniqueQuery.
CallStart(c) ==
    /\ ~crashed
    /\ call[c].pc = "new"
    /\ built' = IF \A d \in CallIds : call[d].pc = "new" THEN pipeline ELSE built
    /\ call' = [call EXCEPT ![c] =
                   IF ~isTrans(pipeline)
                   THEN [@ EXCEPT !.pc = "done", !.err = "notrans"]
                   ELSE IF query = EmptyText
                   THEN [@ EXCEPT !.pc = "begin"]
                   ELSE [@ EXCEPT !.pc = "map", !.u = uniqueQuery(pipeline, query)]]
    /\ UNCHANGED <<crashed, builderVars, runVars, pipeVars, typeVars, clearVars, execVars, buildVars>>

\* addFirstPipeline: p.queryParameters[uniqueQuery] = keyValuePairs.  Two
\* goroutines writing the map at once may end in the runtime's fatal error
\* "concurrent map writes".
CallMapWrite(c) ==
    /\ ~crashed
    /\ call[c].pc = "map"
    /\ \/ /\ pipeline' = [pipeline EXCEPT
                             !.queryParameters = MapPut(@, call[c].u, keyValuePairs)]
          /\ call' = [call EXCEPT ![c].pc = "keys"]
          /\ UNCHANGED crashed
       \/ /\ \E d \in CallIds \ {c} : call[d].pc = "map"
          /\ crashed' = TRUE
          /\ UNCHANGED <<pipeline, call>>
    /\ UNCHANGED <<query, keyValuePairs, chained, runs, built, runVars, pipeVars,
                   typeVars, clearVars, execVars, buildVars>>

\* addFirstPipeline: the read of p.queryKeys in append([]string{u}, p.queryKeys...).
CallReadKeys(c) ==
    /\ ~crashed
    /\ call[c].pc = "keys"
    /\ call' = [call EXCEPT ![c].pc = "prepend", ![c].keys = pipeline.queryKeys]
    /\ UNCHANGED <<built, crashed, builderVars, runVars, pipeVars, typeVars, clearVars, execVars, buildVars>>

\* addFirstPipeline: the assignment to p.queryKeys.
CallWriteKeys(c) ==
    /\ ~crashed
    /\ call[c].pc = "prepend"
    /\ pipeline' = [pipeline EXCEPT !.queryKeys = <<call[c].u>> \o call[c].keys]
    /\ call' = [call EXCEPT ![c].pc = "begin"]
    /\ UNCHANGED <<query, keyValuePairs, chained, runs, built, crashed, runVars,
                   pipeVars, typeVars, clearVars, execVars, buildVars>>

\* ExecInTx from Beginx to its return: the call's own transaction, the run
\* over the pipeline as it is now, the commit or the rollback.
CallRun(c) ==
    /\ ~crashed
    /\ call[c].pc = "begin"
    /\ LET r == runPipeline(pipeline) IN
       call' = [call EXCEPT ![c] =
                   [@ EXCEPT !.pc = "done", !.tx = c, !.keys = pipeline.queryKeys,
                             !.executed = r.executed, !.ids = r.ids,
                             !.hasResult = r.hasResult, !.err = r.err]]
    /\ UNCHANGED <<built, crashed, builderVars, runVars, pipeVars, typeVars, clearVars, execVars, buildVars>>

NextConc ==
    \/ ConcInsert
    \/ \E c \in CallIds :
          \/ CallStart(c) \/ CallMapWrite(c) \/ CallReadKeys(c)
          \/ CallWriteKeys(c) \/ CallRun(c)

SpecConc == Init /\ [][NextConc]_vars

\* ------------------------------- build, Clear, build again (SpecClear)
\* The pipelines handed to appendPipeline.
Sources ==
    { addPipeline(NewPipeline, InsertX, <<Name("a"), IntV(7)>>),
      addPipeline(addPipeline(NewPipeline, InsertX, <<Name("a"), IntV(7)>>),
                  DeleteX, <<Name("a"), FromResult(InsertX)>>) }

\* An add operation: which, and what it is given.
Op(op, q, kv, src) == [op |-> op, query |-> q, keyValuePairs |-> kv, source |-> src]
AddOps ==
    {Op(op, c.query, c.keyValuePairs, NewPipeline) : op \in {"add", "addFirst"}, c \in Calls}
        \cup {Op("append", EmptyText, << >>, src) : src \in Sources}

Apply(pl, o) ==
    CASE o.op = "add" -> addPipeline(pl, o.query, o.keyValuePairs)
      [] o.op = "addFirst" -> addFirstPipeline(pl, o.query, o.keyValuePairs)
      [] o.op = "append" -> appendPipeline(pl, o.source)

\* An add operation on the new pipeline.
ClearBuild ==
    /\ replayed = -1
    /\ Len(hist) < MaxAdds
    /\ \E o \in AddOps :
          /\ p' = Apply(p, o)
          /\ hist' = Append(hist, o)
    /\ UNCHANGED <<saved, replayed, s, ops, builderVars, runVars, concVars, typeVars, execVars, buildVars>>

\* pipeline.Clear
ClearCall ==
    /\ replayed = -1
    /\ saved' = p
    /\ p' = Clear(p)
    /\ replayed' = 0
    /\ UNCHANGED <<hist, s, ops, builderVars, runVars, concVars, typeVars, execVars, buildVars>>

\* The next add operation of the first build, once more.
ClearRepeat ==
    /\ replayed >= 0
    /\ replayed < Len(hist)
    /\ p' = Apply(p, hist[replayed + 1])
    /\ replayed' = replayed + 1
    /\ UNCHANGED <<hist, saved, s, ops, builderVars, runVars, concVars, typeVars, execVars, buildVars>>

NextClear == ClearBuild \/ ClearCall \/ ClearRepeat

SpecClear == Init /\ [][NextClear]_vars

\* ------------------------------------------- queryType on its own (SpecType)
\* The texts given to queryType: white space, then the first characters of a
\* word, then a tail.
Pads == { << >>, <<" ">>, <<"\t", " ">> }
Words ==
    { <<"i", "n", "s", "e", "r", "t">>, <<"I", "N", "S", "E", "R", "T">>,
      <<"I", "n", "s", "e", "r", "t">>, <<"i", "N", "s", "E", "r", "T">>,
      <<"u", "p", "d", "a", "t", "e">>, <<"U", "P", "D", "A", "T", "E">>,
      <<"d", "e", "l", "e", "t", "e">>, <<"D", "e", "l", "e", "t", "e">>,
      <<"s", "e", "l", "e", "c", "t">>, <<"i", "n", "s", "e", "r", "a">>,
      <<"u", "p", "s", "e", "r", "t">> }
Tails == { << >>, <<" ">>, <<"x">>, <<" ", "x">>, <<"s", "\n">> }
Texts ==
    { pad \o SubSeq(w, 1, n) \o tail :
        pad \in Pads, w \in Words, n \in 0..6, tail \in Tails }

\* A caller hands a text over.
TypeInput ==
    /\ text = << >> /\ qtype = "none"
    /\ text' \in Texts
    /\ qtype' = "none"
    /\ UNCHANGED <<builderVars, runVars, pipeVars, concVars, clearVars, execVars, buildVars>>

\* queryType is called on the text.
TypeClassify ==
    /\ qtype = "none"
    /\ qtype' = queryTypeOf(text)
    /\ UNCHANGED <<text, builderVars, runVars, pipeVars, concVars, clearVars, execVars, buildVars>>

NextType == TypeInput \/ TypeClassify

SpecType == Init /\ [][NextType]_vars

\* ------------------------------- the builder and its second builder (SpecBuild)
\* The statements chained on the builders and handed to db.Insert / Update /
\* Delete, each with an argument list of its own.
BuildCalls ==
    { Call(InsertX, <<Name("a"), IntV(7)>>),
      Call(InsertX2, <<Name("a"), IntV(8)>>),
      Call(DeleteX, <<Name("a"), IntV(9)>>) }

\* execQuery.FromResult: the placeholder for the text as uniqueQuery of the
\* builder's pipeline gives it.
execQueryFromResult(e, from) == FromResult(uniqueQuery(e.pipeline, from))

\* ExecResult.TxResult: the value under the text, nil when there is none.
TxResult(ids_, query_) == MapGet(ids_, query_)

\* An ExecInTx that clears the pipeline when the run is over.
leftBehindCleared(pl) == Clear(pl)

\* execQuery.ExecInTx: the pipeline the call leaves in the builder; there
\* is no call of Clear.
leftBehind(pl) == pl

\* A chained call as the history keeps it: the text and the arguments given,
\* the key the entry got, the text a placeholder among the arguments was
\* asked for (empty when there is none).
Chained(q, kv, key, from) == [query |-> q, keyValuePairs |-> kv, key |-> key, from |-> from]

\* b := db.Insert / Update / Delete(...): the second builder is made.
BuildNew ==
    /\ ~wrap.done /\ otherChain = << >> /\ chain = << >> /\ results = << >>
    /\ other = NewBuilder(DeleteX, <<Name("a"), IntV(2)>>)
    /\ \E c \in BuildCalls :
          /\ c.query # DeleteX
          /\ other' = NewBuilder(c.query, <<Name("a"), IntV(3)>>)
    /\ UNCHANGED <<builder, chain, otherChain, wrap, results, builderVars, runVars,
                   pipeVars, concVars, typeVars, clearVars, execVars>>

\* Insert / Update / Delete / Select on the builder.
BuildAdd ==
    /\ results = << >>
    /\ Len(chain) < MaxChain
    /\ \E c \in BuildCalls :
          /\ builder' = [builder EXCEPT
                            !.pipeline = addPipeline(@, c.query, c.keyValuePairs)]
          /\ chain' = Append(chain, Chained(c.query, c.keyValuePairs,
                                            uniqueQuery(builder.pipeline, c.query),
                                            EmptyText))
    /\ UNCHANGED <<other, otherChain, wrap, results, builderVars, runVars,
                   pipeVars, concVars, typeVars, clearVars, execVars>>

\* The texts of the builder's own statements: the originating statement and
\* the statements chained so far.
OwnTexts == {builder.query} \cup {chain[i].query : i \in DOMAIN chain}

\* e.Insert(q, "a", e.FromResult(t)): the arguments are evaluated first,
\* then the statement is added.
BuildAddFrom ==
    /\ results = << >>
    /\ Len(chain) < MaxChain
    /\ \E t \in OwnTexts :
          LET kv == <<Name("a"), execQueryFromResult(builder, t)>> IN
          /\ builder' = [builder EXCEPT !.pipeline = addPipeline(@, DeleteX, kv)]
          /\ chain' = Append(chain, Chained(DeleteX, kv,
                                            uniqueQuery(builder.pipeline, DeleteX), t))
    /\ UNCHANGED <<other, otherChain, wrap, results, builderVars, runVars,
                   pipeVars, concVars, typeVars, clearVars, execVars>>

\* Insert / Update / Delete / Select on the second builder.
BuildAddOther ==
    /\ results = << >> /\ ~wrap.done
    /\ Len(otherChain) < MaxChain - 1
    /\ \E c \in BuildCalls :
          /\ c.query # InsertX2
          /\ other' = [other EXCEPT
                          !.pipeline = addPipeline(@, c.query, c.keyValuePairs)]
          /\ otherChain' = Append(otherChain,
                                  Chained(c.query, c.keyValuePairs,
                                          uniqueQuery(other.pipeline, c.query), EmptyText))
    /\ UNCHANGED <<builder, chain, wrap, results, builderVars, runVars,
                   pipeVars, concVars, typeVars, clearVars, execVars>>

\* execQuery.Debug.
BuildDebug ==
    /\ results = << >>
    /\ ~builder.debug
    /\ builder' = [builder EXCEPT !.debug = TRUE]
    /\ UNCHANGED <<other, chain, otherChain, wrap, results, builderVars, runVars,
                   pipeVars, concVars, typeVars, clearVars, execVars>>

\* execQuery.Wrap: the two builders after e.Wrap(execQuery).
Wrap(e, execQuery) ==
    LET renamed == uniqueQuery(e.pipeline, execQuery.query)
        source == addFirstPipeline(execQuery.pipeline, renamed, execQuery.keyValuePairs)
    IN [e |-> [e EXCEPT !.pipeline = appendPipeline(@, source)],
        execQuery |-> [execQuery EXCEPT !.query = renamed, !.pipeline = source]]

\* builder.Wrap(other).
BuildWrap ==
    /\ results = << >>
    /\ ~wrap.done
    /\ builder' = Wrap(builder, other).e
    /\ other' = Wrap(builder, other).execQuery
    /\ wrap' = [done |-> TRUE, at |-> Len(chain), query |-> other.query,
                keyValuePairs |-> other.keyValuePairs, len |-> Len(otherChain)]
    /\ UNCHANGED <<chain, otherChain, results, builderVars, runVars,
                   pipeVars, concVars, typeVars, clearVars, execVars>>

\* What a call of Exec or ExecInTx did: the statements it executed with the
\* arguments bound to them, what it returned, the pipeline it was given
\* (before) and the pipeline it ran and left in the builder (ran, after).
Result(op, run, before, ran, after) ==
    [op |-> op, executed |-> run.executed, ids |-> run.ids,
     hasResult |-> run.hasResult, err |-> run.err,
     before |-> before, ran |-> ran, after |-> after]
NothingExecuted(e) == [executed |-> << >>, ids |-> EmptyMap, hasResult |-> FALSE, err |-> e]

\* builder.ExecInTx, on a database that succeeds every time.
BuildExecInTx ==
    /\ Len(results) < MaxRuns + 1
    /\ IF ~isTrans(builder.pipeline)
       THEN /\ results' = Append(results, Result("ExecInTx", NothingExecuted("notrans"),
                                                 builder.pipeline, builder.pipeline,
                                                 builder.pipeline))
            /\ UNCHANGED builder
       ELSE LET pl == addFirstPipeline(builder.pipeline, builder.query,
                                       builder.keyValuePairs)
            IN /\ builder' = [builder EXCEPT !.pipeline = leftBehind(pl)]
               /\ results' = Append(results,
                                    Result("ExecInTx", runPipeline(pl),
                                           builder.pipeline, pl, leftBehind(pl)))
    /\ UNCHANGED <<other, chain, otherChain, wrap, builderVars, runVars,
                   pipeVars, concVars, typeVars, clearVars, execVars>>

\* builder.Exec, on a database that succeeds.
BuildExec ==
    /\ Len(results) < MaxRuns + 1
    /\ results' = Append(results,
                         Result("Exec",
                                IF isTrans(builder.pipeline)
                                THEN NothingExecuted("intrans")
                                ELSE [executed |-> <<[query |-> builder.query,
                                                      arguments |->
                                                         Pairs(builder.keyValuePairs).arguments]>>,
                                      ids |-> EmptyMap, hasResult |-> FALSE, err |-> ""],
                                builder.pipeline, builder.pipeline, builder.pipeline))
    /\ UNCHANGED <<builder, other, chain, otherChain, wrap, builderVars, runVars,
                   pipeVars, concVars, typeVars, clearVars, execVars>>

NextBuild ==
    \/ BuildNew \/ BuildAdd \/ BuildAddFrom \/ BuildAddOther \/ BuildDebug
    \/ BuildWrap \/ BuildExecInTx \/ BuildExec

SpecBuild == Init /\ [][NextBuild]_vars


\* ----------------------------------------------------------------- claims
Called(op) == \E k \in DOMAIN log : log[k].op = op
Count(op) == Cardinality({k \in DOMAIN log : log[k].op = op})
\* What makes an entry fail: an executor error, a panic, a cancelled context,
\* missing parameters, an odd argument list.
FailOps == {"fail", "panic", "ctx", "params", "pairs"}
Failed == \E k \in DOMAIN log : log[k].op \in FailOps
ExecutedAll ==
    \A i \in 1..Len(rangeKeys) : \E k \in DOMAIN log : log[k].op = "exec" /\ log[k].pos = i
\* The ExecInTx call that opened a transaction is over.
RunOver == pc = "idle" /\ log # << >>

\* C1: in a run that opened a transaction Commit is called only when every
\* entry was resolved and executed without error; when an entry fails, Commit
\* is never called and Rollback has been called by the time the call is over.
C1_CommitOnlyOnSuccess ==
    /\ Called("Commit") =>
          ExecutedAll /\ ~Failed /\ Len(bound) = Len(rangeKeys) /\ ~Called("Rollback")
    /\ Failed => ~Called("Commit")
    /\ (Failed /\ RunOver) => Count("Rollback") = 1

C1_Witness ==
    /\ RunOver /\ ret.err = "noid" /\ Called("Rollback")
    /\ \E k \in DOMAIN log : log[k].op = "fail" /\ log[k].pos = 3

\* C2: when the entry at position i fails, nothing is prepared or executed at
\* a later position, nothing but the rollback follows the failure, and the
\* run ends with the transaction rolled back.
C2_FailFast ==
    \A k \in DOMAIN log :
        log[k].op \in FailOps =>
            /\ \A m \in DOMAIN log : m > k => log[m].op = "Rollback"
            /\ \A m \in DOMAIN log : log[m].pos <= log[k].pos
            /\ Len(bound) <= log[k].pos
            /\ RunOver => log[Len(log)].op = "Rollback"

C2_Witness ==
    /\ RunOver /\ Len(rangeKeys) = 3
    /\ \E k \in DOMAIN log : log[k].op = "fail" /\ log[k].pos = 2

\* C3: when every statement of a run of N entries succeeded, the returned
\* result has exactly N keys, each mapped to what that entry's executor
\* returned, and Commit was called exactly once.
C3_ResultComplete ==
    (RunOver /\ ret.state = "returned" /\ ~Failed) =>
        /\ Count("Commit") = 1
        /\ Cardinality(DOMAIN ret.ids) = Len(rangeKeys)
        /\ \A i \in 1..Len(rangeKeys) : ret.ids[rangeKeys[i]] = produced[i]

\* C4: the statements run in the order of the key sequence: what is prepared
\* or executed at a position is the key at that position, positions only go
\* up, an entry finishes before the next one starts, none runs twice.
C4_InOrder ==
    LET steps == {k \in DOMAIN log : log[k].op \in {"prepare", "exec"}} IN
    /\ \A k \in steps : log[k].query = rangeKeys[log[k].pos]
    /\ \A a, b \in steps :
          a < b => \/ log[a].pos < log[b].pos
                   \/ /\ log[a].pos = log[b].pos
                      /\ log[a].op = "prepare" /\ log[b].op = "exec"
    /\ \A k \in steps :
          log[k].pos > 1 =>
             \E a \in steps : a < k /\ log[a].op = "exec" /\ log[a].pos = log[k].pos - 1

C4_Witness == RunOver /\ Count("exec") = 3 /\ rangeKeys[1] # rangeKeys[3]

\* C5: when an argument of the entry at position j is the placeholder for the
\* key of an entry at a position i < j, the argument map bound to entry j
\* holds under that argument's name the value entry i's executor returned.
C5_PlaceholderResolves ==
    \A j \in DOMAIN bound : \A i \in 1..(j - 1) :
        LET raw == bound[j].raw IN
        \A t \in 1..(Len(raw) \div 2) :
            raw[2 * t] = FromResult(rangeKeys[i]) =>
                bound[j].args[Sprint(raw[2 * t - 1])] = produced[i]

\* C6: the keys of a pipeline are pairwise distinct after any sequence of
\* addPipeline, addFirstPipeline and appendPipeline calls.
C6_KeysDistinct ==
    \A i, j \in DOMAIN p.queryKeys : i # j => p.queryKeys[i] # p.queryKeys[j]

\* C7: the key sequence and the mapping are in sync: the same keys, and the
\* same number of entries.
C7_InSync ==
    /\ {p.queryKeys[i] : i \in DOMAIN p.queryKeys} = DOMAIN p.queryParameters
    /\ Len(p.queryKeys) = Cardinality(DOMAIN p.queryParameters)

\* C8: ExecInTx returns a result and no error, or an error and no result,
\* never a result together with an error.
C8_NoPartialShape ==
    (pc = "idle" /\ ret.state = "returned") =>
        \/ ret.hasResult /\ ret.err = ""
        \/ ~ret.hasResult /\ ret.err # ""

\* C9: when a panic occurs while an entry is executed, Commit is not called,
\* the call does not return normally, and when the panic leaves ExecInTx
\* Rollback has been called right after it and the value raised is the same.
C9_PanicRollsBack ==
    \A k \in DOMAIN log :
        log[k].op = "panic" =>
            /\ ~Called("Commit")
            /\ ret.state # "returned"
            /\ pc = "idle" =>
                  /\ ret.state = "panicked"
                  /\ ret.panic = log[k].val
                  /\ Len(log) = k + 1 /\ log[k + 1].op = "Rollback"

C9_Witness ==
    /\ pc = "idle" /\ ret.state = "panicked" /\ ret.panic = "p2"
    /\ \E k \in DOMAIN log : log[k].op = "panic" /\ log[k].pos = 2

\* The positions whose check of ctx.Done() came before the cancellation.
Passed == IF cancelAt.pc = "loop" THEN cancelAt.index - 1 ELSE cancelAt.index

EmptyCall == pipeline.queryKeys = << >> /\ pc = "idle" /\ ExecInTx

\* C11 as stated: ExecInTx on an empty pipeline returns an empty result and
\* no error, and opens no transaction.
C11_EmptyGivesEmptyResult ==
    [][EmptyCall =>
          /\ ret'.state = "returned" /\ ret'.hasResult /\ ret'.ids = EmptyMap
          /\ ret'.err = ""
          /\ log' = << >>]_vars

\* C11: ExecInTx on an empty pipeline returns at once with no result and the
\* error "no transaction pipeline found"; it opens no transaction, executes
\* nothing and leaves the pipeline empty.
C11_EmptyGivesError ==
    [][EmptyCall =>
          /\ pc' = "idle" /\ ret'.state = "returned"
          /\ ~ret'.hasResult /\ ret'.err = "notrans"
          /\ log' = << >> /\ stmtOpen' = 0
          /\ pipeline' = pipeline]_vars

C11_Witness ==
    /\ pc = "idle" /\ runs = 1 /\ ret.state = "returned" /\ ret.err = "notrans"
    /\ pipeline.queryKeys = << >> /\ log = << >>

\* The names of an argument list: its elements at the odd positions, printed.
NamesOf(kv) == {Sprint(kv[2 * t - 1]) : t \in 1..(Len(kv) \div 2)}
OddList(kv) == Len(kv) % 2 = 1

\* C12: Pairs and PairsHook give an error and a nil map for an odd list, a
\* map over the list's names and no error for an even one; in a run an entry
\* whose list is odd is neither resolved nor prepared nor executed, nothing
\* after it is started, and the run fails there and is rolled back.
C12_OddListFails ==
    /\ resolved.fn # "none" =>
          IF OddList(resolved.kv)
          THEN resolved.out.err /\ resolved.out.isNil
          ELSE /\ ~resolved.out.err /\ ~resolved.out.isNil
               /\ DOMAIN resolved.out.arguments = NamesOf(resolved.kv)
    /\ pc # "idle" =>
          \A i \in 1..Len(rangeKeys) :
              (/\ rangeKeys[i] \in DOMAIN pipeline.queryParameters
               /\ OddList(pipeline.queryParameters[rangeKeys[i]])) =>
                  /\ Len(bound) < i /\ Len(produced) < i
                  /\ \A k \in DOMAIN log :
                        \/ log[k].pos < i
                        \/ log[k].pos = i /\ log[k].op \in {"pairs", "ctx"}
                  /\ (pc = "defer" /\ index = i) =>
                        /\ log[Len(log)].op \in {"pairs", "ctx"}
                        /\ err = log[Len(log)].op /\ ~hasResult
    /\ \A k \in DOMAIN log :
          log[k].op = "pairs" =>
              /\ ~Called("Commit")
              /\ RunOver => /\ ret.err = "pairs" /\ ~ret.hasResult
                            /\ log[Len(log)].op = "Rollback"

C12_Witness ==
    /\ RunOver /\ ret.err = "pairs" /\ Len(rangeKeys) = 3
    /\ \E k \in DOMAIN log : log[k].op = "pairs" /\ log[k].pos = 2
    /\ \E k \in DOMAIN log : log[k].op = "exec" /\ log[k].pos = 1

\* The executor of an insert entry was left with an error after its prepare.
InsertFailed ==
    \E k, m \in DOMAIN log :
        /\ m < k /\ log[m].op = "prepare" /\ log[k].op = "fail"
        /\ log[m].pos = log[k].pos
        /\ queryType(log[k].query) = "insert"

\* C13: an insert whose RETURNING clause yields no row, or whose identifier
\* is NULL, fails with the error "insert operation failed: no ID was
\* returned", in Exec as in a run; in a run the transaction is rolled back.
C13_NoIdentifierIsDistinct ==
    /\ (outcome \in {"norow", "null"} /\ pc \in {"defer", "idle"} /\ InsertFailed) =>
          /\ err = "noid"
          /\ ~Called("Commit")
          /\ RunOver => ret.err = "noid" /\ log[Len(log)].op = "Rollback"
    /\ (outcome \in {"norow", "null"} /\ ret.state = "execReturned") =>
          ret.err = "noid"

\* The executors left so far in the run: by a result, by an error after the
\* prepare, by a panic.
ExecutorExits ==
    {k \in DOMAIN log :
        \/ log[k].op \in {"exec", "panic"}
        \/ /\ log[k].op = "fail"
           /\ \E m \in DOMAIN log :
                 m < k /\ log[m].op = "prepare" /\ log[m].pos = log[k].pos}

\* C14: a prepared statement is open only while the executor that prepared it
\* runs: at most one is open, none is open when an entry starts, when the
\* runner returns or when Commit or Rollback is called, and every executor
\* left (by a result, an error, a missing identifier, a panic) has closed its own.
C14_StatementsClosed ==
    /\ stmtOpen \in {0, 1}
    /\ stmtOpen = 1 => pc = "exec"
    /\ pc \in {"loop", "prepare", "defer", "idle"} => stmtOpen = 0
    /\ (Called("Commit") \/ Called("Rollback")) => stmtOpen = 0
    /\ Count("prepare") = Cardinality(ExecutorExits) + stmtOpen

C14_Witness ==
    /\ pc = "defer" /\ panicValue # NoPanic /\ stmtOpen = 0
    /\ Count("prepare") = 2 /\ Count("exec") = 1

\* What an ExecInTx call on the builder executes and returns when it is the
\* only call.
Alone ==
    IF ~isTrans(built)
    THEN [executed |-> << >>, ids |-> EmptyMap, hasResult |-> FALSE, err |-> "notrans"]
    ELSE runPipeline(addFirstPipeline(built, query, keyValuePairs))

\* C15: concurrent ExecInTx calls, on the same builder too, do not disturb
\* each other: the program is not stopped, and every call that is over has
\* executed the statements and returned the result and the error it would
\* have as the only call.
C15_CallsIndependent ==
    /\ ~crashed
    /\ \A c \in CallIds :
          call[c].pc = "done" =>
              /\ call[c].executed = Alone.executed
              /\ call[c].ids = Alone.ids
              /\ call[c].hasResult = Alone.hasResult
              /\ call[c].err = Alone.err

\* The key under which addFirstPipeline stored the originating statement: its
\* text, or its text followed by one more comment.
IsOriginating(t) ==
    /\ t.base = query.base
    /\ \/ t.marks = query.marks
       \/ /\ Len(t.marks) = Len(query.marks) + 1
          /\ SubSeq(t.marks, 1, Len(query.marks)) = query.marks

\* C16: in a run the entry at the first position is the originating statement
\* with the originating arguments, and whatever is prepared or executed at a
\* later position comes after the originating statement was executed.
C16_OriginatingFirst ==
    /\ rangeKeys # << >> => IsOriginating(rangeKeys[1])
    /\ bound # << >> => bound[1].raw = keyValuePairs
    /\ \A k \in DOMAIN log :
          log[k].op \in {"prepare", "exec"} =>
              IF log[k].pos = 1
              THEN IsOriginating(log[k].query)
              ELSE \E m \in DOMAIN log :
                      /\ m < k /\ log[m].op = "exec" /\ log[m].pos = 1
                      /\ IsOriginating(log[m].query)

C16_Witness ==
    /\ RunOver /\ Count("exec") = 3
    /\ query = InsertX /\ rangeKeys[1] = InsertX2
    /\ queryType(rangeKeys[3]) = "delete"

\* The text without the white space around it, by the positions of its
\* first and last character that is not white space.
Inner(chars) ==
    LET solid == {i \in 1..Len(chars) : ~IsSpace(chars[i])} IN
    IF solid = {} THEN << >>
    ELSE SubSeq(chars, CHOOSE i \in solid : \A j \in solid : i <= j,
                       CHOOSE i \in solid : \A j \in solid : i >= j)

\* The upper-case form of the letters of the three keywords.
Upper ==
    [c \in {"i", "n", "s", "e", "r", "t", "u", "p", "d", "a", "l"} |->
        CASE c = "i" -> "I" [] c = "n" -> "N" [] c = "s" -> "S" [] c = "e" -> "E"
          [] c = "r" -> "R" [] c = "t" -> "T" [] c = "u" -> "U" [] c = "p" -> "P"
          [] c = "d" -> "D" [] c = "a" -> "A" [] c = "l" -> "L"]

\* The text, trimmed, has six characters or more and its first six are the
\* keyword's, in either case.
BeginsWith(chars, keyword) ==
    /\ Len(Inner(chars)) >= 6
    /\ \A i \in 1..6 : Inner(chars)[i] \in {keyword[i], Upper[keyword[i]]}

\* C17: queryType returns insert, update or delete exactly when the trimmed
\* text has six characters or more and its first six are that keyword in
\* either case, and returns select for every other text, so for every text
\* whose trimmed length is below six.
C17_QueryTypeByPrefix ==
    qtype # "none" =>
        /\ qtype = "insert" <=> BeginsWith(text, qInsert)
        /\ qtype = "update" <=> BeginsWith(text, qUpdate)
        /\ qtype = "delete" <=> BeginsWith(text, qDelete)
        /\ qtype = "select" <=>
              ~(\E keyword \in {qInsert, qUpdate, qDelete} : BeginsWith(text, keyword))
        /\ Len(Inner(text)) < 6 => qtype = "select"

C17_Witness ==
    /\ qtype = "delete"
    /\ text = <<"\t", " ", "D", "e", "l", "e", "t", "e", "s", "\n">>

\* C18: right after Clear the pipeline has length 0 and isTrans is false; when
\* the add operations that built it have all been repeated, the pipeline has
\* the keys it had before the Clear, in the same order, each with the same
\* arguments.
C18_ClearThenRepeat ==
    /\ replayed = 0 => Len(p.queryKeys) = 0 /\ ~isTrans(p)
    /\ (replayed >= 0 /\ replayed = Len(hist)) =>
          /\ p.queryKeys = saved.queryKeys
          /\ \A i \in DOMAIN p.queryKeys :
                /\ p.queryKeys[i] \in DOMAIN p.queryParameters
                /\ p.queryKeys[i] \in DOMAIN saved.queryParameters
                /\ p.queryParameters[p.queryKeys[i]]
                      = saved.queryParameters[p.queryKeys[i]]

C18_Witness ==
    /\ replayed = 3 /\ Len(hist) = 3 /\ Len(saved.queryKeys) >= 3
    /\ \E i \in DOMAIN p.queryKeys : p.queryKeys[i] = Text("Insert x", <<1>>)

\* The calls of Commit and Rollback on the transaction of the run.
Ends == {k \in DOMAIN log : log[k].op \in {"Commit", "Rollback"}}

\* C19: a call that began a transaction runs its entries and then makes one
\* call of Commit or Rollback, the last thing done on the transaction: none
\* while the runner is at work, exactly one when the call is over, nothing
\* after it, and no entry is prepared or executed twice.
C19_OneEnd ==
    /\ log # << >> => log[1].op = "Begin" /\ Count("Begin") = 1
    /\ (log # << >> /\ pc # "idle") => Ends = {}
    /\ RunOver => Cardinality(Ends) = 1
    /\ \A k \in Ends : k = Len(log) /\ pc = "idle"
    /\ \A a, b \in DOMAIN log :
          (a # b /\ log[a].op = log[b].op /\ log[a].op \in {"prepare", "exec"}) =>
              log[a].pos # log[b].pos

C19_Witness ==
    /\ RunOver /\ Count("exec") = 3 /\ Count("Commit") = 1
    /\ ret.hasResult /\ ret.err = ""

\* C20: the map PairsHook is given for the entry at position i holds results
\* under the keys of the entries at the positions before i of this run and
\* under no other key, and each of them is what one of those entries
\* returned in this run.
C20_OnlyEarlierResults ==
    \A i \in DOMAIN bound :
        /\ DOMAIN bound[i].ids = {rangeKeys[k] : k \in 1..(i - 1)}
        /\ \A key \in DOMAIN bound[i].ids :
              \E k \in 1..(i - 1) :
                  rangeKeys[k] = key /\ bound[i].ids[key] = produced[k]

C20_Witness ==
    /\ Len(bound) = 3 /\ Cardinality(DOMAIN bound[3].ids) = 2
    /\ bound[3].raw = <<Name("a"), FromResult(InsertX)>>
    /\ bound[3].args["a"] = produced[1]

\* The positions in an argument list of the placeholders that name a key
\* under which the map holds no result.
Missing(kv, identifiers) ==
    {t \in 1..(Len(kv) \div 2) :
        IsHooked(kv[2 * t], qResult) /\ kv[2 * t].rest \notin DOMAIN identifiers}

\* C21: a placeholder whose key has no recorded result when the entry is
\* resolved is bound to nil and is no error: the entry goes on to its
\* executor with these arguments, and the resolution of an entry fails for an
\* odd list only.
C21_MissingResolvesToNil ==
    /\ \A j \in DOMAIN bound :
          \A t \in Missing(bound[j].raw, bound[j].ids) :
              bound[j].args[Sprint(bound[j].raw[2 * t - 1])] = Nil
    /\ pc = "prepare" => index = Len(bound) /\ arguments = bound[index].args
    /\ \A k \in DOMAIN log :
          log[k].op = "pairs" => OddList(pipeline.queryParameters[log[k].query])
    /\ (resolved.fn = "PairsHook" /\ resolved.out.err) => OddList(resolved.kv)

C21_Witness ==
    /\ RunOver /\ Count("Commit") = 1 /\ ret.err = "" /\ ret.hasResult
    /\ \E j \in DOMAIN bound :
          /\ Missing(bound[j].raw, bound[j].ids) # {}
          /\ \E k \in DOMAIN log : log[k].op = "exec" /\ log[k].pos = j

\* The positions of the run whose entry is no insert and returned the count 0.
ZeroCounts ==
    {j \in DOMAIN produced :
        queryType(rangeKeys[j]) # "insert" /\ produced[j] = IntV(0)}

\* C22: an update or delete that affects no rows succeeds with the count 0:
\* the executor's return does not end the run, the entry's key is recorded
\* with the value 0, no failure is noted at its position and the runner has
\* moved on to the next position; outside a transaction Exec returns the
\* count and a nil error.
C22_ZeroRowsSucceeds ==
    /\ [](/\ \A j \in ZeroCounts :
               /\ ids[rangeKeys[j]] = IntV(0)
               /\ index > j
               /\ \E k \in DOMAIN log : log[k].op = "exec" /\ log[k].pos = j
               /\ \A k \in DOMAIN log : log[k].op \in FailOps => log[k].pos > j
           /\ (ret.state = "execReturned" /\ outcome \in {"rows", "unaffected"}) =>
                  /\ ret.err = ""
                  /\ ret.value \in {IntV(n) : n \in RowCounts}
                  /\ outcome = "unaffected" => ret.value = IntV(0))
    /\ [][(pc = "exec" /\ log' # log /\ outcome' \in {"rows", "unaffected"}) =>
              /\ pc' = "loop" /\ index' = index + 1 /\ err' = err
              /\ Len(produced') = index
              /\ outcome' = "unaffected" => produced'[index] = IntV(0)]_vars

C22_Witness ==
    /\ RunOver /\ Count("Commit") = 1 /\ ret.err = "" /\ ret.hasResult
    /\ 2 \in ZeroCounts /\ Count("exec") = 3
    /\ ret.ids[rangeKeys[2]] = IntV(0)

\* The text is the text t, or t followed by one comment /*n*/.
IsFormOf(u, t) ==
    \/ u = t
    \/ u.base = t.base /\ Len(u.marks) = Len(t.marks) + 1
       /\ SubSeq(u.marks, 1, Len(t.marks)) = t.marks

\* C23: p.appendPipeline(s) leaves the keys p had, their order and their
\* arguments as they were, leaves s as it was, and adds after them one entry
\* for each key of s, in the order of s: the key of s or its disambiguated
\* form, with the arguments s holds for that key.
C23_AppendFrame ==
    [][(ops < MaxOps /\ PipeAppend) =>
          LET n == Len(p.queryKeys)
              m == Len(s.queryKeys)
          IN /\ s' = s
             /\ Len(p'.queryKeys) = n + m
             /\ \A i \in 1..n :
                   /\ p'.queryKeys[i] = p.queryKeys[i]
                   /\ p'.queryParameters[p.queryKeys[i]] = p.queryParameters[p.queryKeys[i]]
             /\ \A j \in 1..m :
                   /\ IsFormOf(p'.queryKeys[n + j], s.queryKeys[j])
                   /\ p'.queryParameters[p'.queryKeys[n + j]] =
                          s.queryParameters[s.queryKeys[j]]]_vars

\* Exec returned without calling an executor, leaving the database alone.
NothingRun ==
    /\ dispatched' = << >> /\ log' = << >> /\ outcome' = "none"
    /\ stmtOpen' = stmtOpen /\ nextId' = nextId

\* Exec called one executor of the kind that works on the database handle,
\* once, with the statement q and the map of its arguments kv, and began no
\* transaction; or it returned the error of an odd argument list.
RunAlone(q, kv) ==
    /\ log' = << >>
    /\ IF OddList(kv)
       THEN ret'.err = "pairs" /\ NothingRun
       ELSE /\ Len(dispatched') = 1
            /\ dispatched'[1].executor \in {"insert", "update", "delete"}
            /\ dispatched'[1].query = q
            /\ dispatched'[1].arguments = Pairs(kv).arguments

\* C24: Exec on a builder whose pipeline holds an entry returns an error and
\* prepares nothing, executes nothing and begins no transaction; on a builder
\* whose pipeline is empty it runs the originating statement alone, once,
\* outside any transaction.
C24_ExecAloneOrRejected ==
    /\ [][(pc = "idle" /\ runs < MaxRuns /\ Exec) =>
              IF pipeline.queryKeys # << >>
              THEN ret' = ExecReturn(IntV(0), "intrans") /\ NothingRun
              ELSE RunAlone(query, keyValuePairs)]_vars
    /\ [][(pc = "idle" /\ runs = 0 /\ chained = 0 /\ ExecNew) =>
              \E c \in ExecCalls : RunAlone(c.query, c.keyValuePairs)]_vars

C24_Witness ==
    /\ ret.state = "execReturned" /\ ret.err = "" /\ ret.value = IntV(101)
    /\ dispatched = <<Dispatched("insert", query, Pairs(keyValuePairs).arguments)>>
    /\ pipeline.queryKeys = << >> /\ log = << >> /\ pc = "idle"

\* The executors that change rows.
Mutating == {"insert", "update", "delete", "insertTx", "updateTx", "deleteTx"}

\* C26: every statement run by Exec or by runPipeline goes through the
\* executor of its class: the insert executor if and only if queryType
\* gives insert, the delete executor if and only if it gives delete, the
\* update executor if and only if it gives update, and a statement of the
\* class select goes through none of the three.
C26_DispatchByType ==
    \A k \in DOMAIN dispatched :
        LET executor == dispatched[k].executor
            class == queryType(dispatched[k].query)
        IN /\ executor \in {"insert", "insertTx"} <=> class = "insert"
           /\ executor \in {"delete", "deleteTx"} <=> class = "delete"
           /\ executor \in {"update", "updateTx"} <=> class = "update"
           /\ class = "select" => executor \notin Mutating

\* The ExecInTx calls among the results that ran a pipeline.
TxRuns == {k \in DOMAIN results : results[k].op = "ExecInTx" /\ results[k].err # "notrans"}
KeysOf(pl) == {pl.queryKeys[i] : i \in DOMAIN pl.queryKeys}

\* C25: when ExecInTx has returned, the builder's pipeline holds none of the
\* entries of that run, and a later ExecInTx on the builder executes none of
\* the statements an earlier one executed.
C25_EntriesConsumed ==
    /\ \A k \in TxRuns : KeysOf(results[k].ran) \cap KeysOf(results[k].after) = {}
    /\ \A j, k \in TxRuns :
          j < k => \A x \in DOMAIN results[j].executed, y \in DOMAIN results[k].executed :
                       results[j].executed[x].query # results[k].executed[y].query

\* The values the builder's statements with the text t produced in a run,
\* for the chained call at position c of the chain: the originating
\* statement runs first, a statement chained before c runs where its key stands.
ProducedBy(k, c, t) ==
    (IF builder.query = t THEN {IntV(101)} ELSE {})
    \cup {IntV(100 + i) : i \in {i \in DOMAIN results[k].ran.queryKeys :
                                    \E d \in 1..(c - 1) :
                                        /\ chain[d].query = t
                                        /\ chain[d].key = results[k].ran.queryKeys[i]}}

\* C27: a statement chained with a placeholder from the builder's own
\* FromResult(t) is executed with a value that one of the builder's
\* statements with the text t produced in this run.
C27_OwnPlaceholderResolves ==
    \A k \in TxRuns : \A c \in DOMAIN chain :
        chain[c].from # EmptyText =>
            \A i \in DOMAIN results[k].executed :
                results[k].executed[i].query = chain[c].key =>
                    results[k].executed[i].arguments["a"]
                        \in ProducedBy(k, c, chain[c].from)

\* C28: after an ExecInTx that succeeded, TxResult of the builder's
\* originating text is the value the originating statement, the first
\* statement of the run, produced.
C28_TxResultOfOriginating ==
    \A k \in TxRuns :
        (results[k].hasResult /\ results[k].err = "") =>
            TxResult(results[k].ids, builder.query) = IntV(101)

\* A step leaves each builder's pipeline at least as long as it was.
NoShorter ==
    /\ Len(builder'.pipeline.queryKeys) >= Len(builder.pipeline.queryKeys)
    /\ Len(other'.pipeline.queryKeys) >= Len(other.pipeline.queryKeys)
    /\ isTrans(builder.pipeline) => isTrans(builder'.pipeline)
    /\ isTrans(other.pipeline) => isTrans(other'.pipeline)

\* C29: no builder operation shortens a builder's pipeline, so a pipeline
\* that holds an entry holds one ever after, and every Exec on the builder
\* made once its pipeline held an entry is rejected and executes nothing.
C29_PipelineNeverShrinks ==
    /\ [][NoShorter]_vars
    /\ [](\A j, k \in DOMAIN results :
             (j <= k /\ results[k].op = "Exec" /\ results[j].after.queryKeys # << >>) =>
                 results[k].err = "intrans" /\ results[k].executed = << >>)
    /\ []((chain # << >> /\ results = << >>) => isTrans(builder.pipeline))

C29_Witness ==
    /\ Len(results) = 2 /\ Len(chain) = 2 /\ wrap.done /\ builder.debug
    /\ results[1].op = "ExecInTx" /\ results[1].err = "" /\ results[1].hasResult
    /\ results[2].op = "Exec" /\ results[2].err = "intrans"
    /\ Len(builder.pipeline.queryKeys) >= 4

\* The text is the text t followed by any number of comments /*n*/.
IsRenamingOf(u, t) ==
    /\ u.base = t.base /\ Len(u.marks) >= Len(t.marks)
    /\ SubSeq(u.marks, 1, Len(t.marks)) = t.marks

\* The statements of the two builders in the order Wrap and ExecInTx are to
\* run them, each with the argument list it was given.
Statement(q, kv) == [query |-> q, keyValuePairs |-> kv]
OfChain(calls, from, to) ==
    [i \in 1..(to - from + 1) |->
        Statement(calls[from + i - 1].query, calls[from + i - 1].keyValuePairs)]
WrapOrder ==
    <<Statement(builder.query, builder.keyValuePairs)>>
    \o OfChain(chain, 1, wrap.at)
    \o <<Statement(wrap.query, wrap.keyValuePairs)>>
    \o OfChain(otherChain, 1, wrap.len)
    \o OfChain(chain, wrap.at + 1, Len(chain))

\* C30: the first ExecInTx on the builder after builder.Wrap(other) executes
\* the builder's originating statement, the statements chained on the builder
\* before the Wrap, other's originating statement, the statements chained on
\* other, then the statements chained on the builder after the Wrap: each
\* once, each with the argument list it was given.
C30_WrapOrder ==
    (wrap.done /\ results # << >> /\ results[1].op = "ExecInTx") =>
        LET r == results[1] IN
        /\ Len(r.executed) = Len(WrapOrder)
        /\ \A i \in DOMAIN r.executed :
              /\ r.executed[i].query = r.ran.queryKeys[i]
              /\ IsRenamingOf(r.executed[i].query, WrapOrder[i].query)
              /\ r.ran.queryParameters[r.executed[i].query] = WrapOrder[i].keyValuePairs
              /\ r.executed[i].arguments =
                    PairsHook(WrapOrder[i].keyValuePairs,
                              [q \in {r.ran.queryKeys[j] : j \in 1..(i - 1)} |-> r.ids[q]],
                              qResult).arguments

\* ExecInTx returned the error of Beginx.
BeginFailed == ret.state = "returned" /\ ret.err = "begin"

\* C31: when Beginx fails, ExecInTx returns its error and a nil result at
\* once: no entry is resolved, no executor is called, no statement is
\* prepared or executed, and neither Commit nor Rollback is called.
C31_BeginFails ==
    BeginFailed =>
        /\ pc = "idle" /\ ~ret.hasResult /\ ret.ids = EmptyMap /\ ret.panic = NoPanic
        /\ log = << >> /\ Ends = {}
        /\ dispatched = << >> /\ bound = << >> /\ produced = << >>
        /\ ids = EmptyMap /\ outcome = "none" /\ resolved = NoResolved

C31_Witness ==
    /\ BeginFailed /\ pc = "idle" /\ runs = 1
    /\ Len(pipeline.queryKeys) = 3 /\ IsOriginating(pipeline.queryKeys[1])
    /\ log = << >> /\ dispatched = << >>

====
